---- MODULE Spec2Model ----
(***************************************************************************)
(* Interval-scheduling core of the calendar: conflict detection,           *)
(* alternative-slot suggestion, free-time discovery and the column layout  *)
(* of a day's events (src/src/utils/conflict.utils.ts), with the event     *)
(* store (src/src/hooks/useEventManager.ts) and the day filter and overlap *)
(* badges of the month and week views.                                     *)
(*                                                                         *)
(* A Date is its getTime() value, an integer number of milliseconds; local *)
(* time has no daylight-saving shift, so every calendar day is 24 hours    *)
(* and day d starts at d * MsPerDay.  Day 0 is a Thursday (1970-01-01).    *)
(* Intervals handed to date-fns have start <= end; for those every major   *)
(* version of the library computes the same answer.                        *)
(***************************************************************************)
EXTENDS Integers, Sequences, FiniteSets, TLC

\* ------------------------------------------------------------------ bounds
MaxEvents == 2
MaxStack == 4
MaxLayoutEvents == 3
MaxStored == 1

\* ------------------------------------------------------- program constants
MsPerMinute == 60000
BusinessStartHour == 8
BusinessEndHour == 18
SlotStepMinutes == 30
MaxSuggestions == 3
DefaultMinDuration == 60
NextAvailableMinutes == 60
NoonHour == 12
MaxTitleLength == 100
EveningHour == 17
MinAvailableDays == 4

MsPerHour == 60 * MsPerMinute
MsPerDay == 24 * MsPerHour

\* ------------------------------------------------------------ date helpers
At(d, h, m, s) == d * MsPerDay + h * MsPerHour + m * MsPerMinute + s * 1000

startOfDay(t) == (t \div MsPerDay) * MsPerDay

setHours(t, h) == startOfDay(t) + h * MsPerHour

getHours(t) == (t % MsPerDay) \div MsPerHour

getMinutes(t) == (t % MsPerHour) \div MsPerMinute

addMinutes(t, n) == t + n * MsPerMinute

isSameDay(a, b) == startOfDay(a) = startOfDay(b)

\* Variant: the difference in whole hours.
differenceInHours(later, earlier) == (later - earlier) \div MsPerHour

\* date-fns differenceInMinutes: the millisecond difference over 60000,
\* truncated toward zero.
differenceInMinutes(later, earlier) ==
  IF later >= earlier
    THEN (later - earlier) \div MsPerMinute
    ELSE 0 - ((earlier - later) \div MsPerMinute)

\* date-fns format(date, 'h:mm a'): 12-hour clock, minutes, AM/PM; the date,
\* the seconds and the milliseconds are dropped.
format(t) ==
  LET h == getHours(t)
      h12 == IF h % 12 = 0 THEN 12 ELSE h % 12
  IN  <<h12, getMinutes(t), IF h < 12 THEN "AM" ELSE "PM">>

\* Variant: the left interval's start may touch the right interval's end.
areIntervalsOverlappingLeftClosed(left, right) ==
  left.start <= right.end /\ right.start < left.end

\* Variant: only the first of the two comparisons is made.
areIntervalsOverlappingOneSided(left, right) ==
  left.start < right.end

\* Variant: the comparison with {inclusive: true}.
areIntervalsOverlappingInclusive(left, right) ==
  left.start <= right.end /\ right.start <= left.end

\* date-fns areIntervalsOverlapping(left, right, {inclusive: false})
areIntervalsOverlapping(left, right) ==
  left.start < right.end /\ right.start < left.end

\* ------------------------------------------------------------- input pools
NoId == "undefined"

Ev(id, title, s, e) == [id |-> id, title |-> title, startDate |-> s, endDate |-> e]

\* Existing events are drawn from this pool; day 4 is a Monday.
EventPool ==
  { Ev("e1", "Standup",  At(4, 9, 0, 0),   At(4, 10, 0, 0)),
    Ev("e2", "Review",   At(4, 10, 0, 0),  At(4, 11, 0, 0)),
    Ev("e3", "Lunch",    At(4, 11, 30, 0), At(4, 12, 30, 0)),
    Ev("e4", "Sync",     At(4, 12, 15, 0), At(4, 13, 0, 0)),
    Ev("e5", "Early",    At(4, 7, 0, 0),   At(4, 8, 30, 0)),
    Ev("e6", "Dinner",   At(4, 19, 0, 0),  At(4, 20, 0, 0)) }

Interval(s, e) == [startDate |-> s, endDate |-> e]

\* Candidate intervals: the form's start and end.
Candidates ==
  { Interval(At(4, 9, 30, 0),  At(4, 10, 30, 0)),
    Interval(At(4, 12, 0, 0),  At(4, 13, 0, 0)),
    Interval(At(4, 10, 0, 0),  At(4, 11, 0, 30)),
    Interval(At(4, 10, 0, 0),  At(4, 10, 0, 0)),
    Interval(At(4, 9, 0, 0),   At(4, 10, 0, 0)),
    Interval(At(4, 8, 30, 0),  At(4, 18, 0, 0)),
    Interval(At(4, 7, 30, 0),  At(4, 18, 0, 0)),
    Interval(At(4, 8, 0, 0),   At(4, 18, 0, 30)) }

ExcludeIds == {NoId, "e1", "e3"}

RECURSIVE SeqsUpTo(_, _)
\* The sequences without repetition of at most n elements of S.
SeqsUpTo(S, n) ==
  IF n = 0 THEN {<<>>}
  ELSE LET shorter == SeqsUpTo(S, n - 1)
       IN  shorter \cup
           { Append(q, x) : <<q, x>> \in
               { p \in shorter \X S :
                   /\ Len(p[1]) = n - 1
                   /\ \A i \in 1..Len(p[1]) : p[1][i] # p[2] } }

EventLists == SeqsUpTo(EventPool, MaxEvents)

\* findFreeTimeSlots is given events from this larger pool: events after
\* business hours, across midnight, with a shared start, over several days
\* (day 4 is a Monday, day 7 the Thursday, day 10 the Sunday of that week).
FreeEventPool ==
  EventPool \cup
  { Ev("f1", "Late",      At(4, 20, 30, 0), At(4, 21, 0, 0)),
    Ev("f2", "Overnight", At(3, 22, 0, 0),  At(4, 9, 0, 0)),
    Ev("f3", "Huddle",    At(4, 9, 0, 0),   At(4, 9, 30, 0)),
    Ev("f4", "Workshop",  At(4, 12, 0, 0),  At(4, 13, 30, 0)),
    Ev("f5", "Wrap",      At(4, 16, 0, 0),  At(4, 17, 0, 0)),
    Ev("f6", "Trip",      At(4, 9, 30, 0),  At(7, 10, 30, 0)),
    Ev("f7", "Sunday",    At(10, 0, 0, 0),  At(10, 23, 0, 0)),
    Ev("f8", "Midday",    At(4, 12, 30, 0), At(4, 13, 30, 0)) }

FreeEventLists == SeqsUpTo(FreeEventPool, MaxEvents)

\* The events of one day handed to calculateEventLayout, each with
\* startDate < endDate.
LayoutEventPool ==
  { Ev("l1", "Design",   At(4, 10, 0, 0),  At(4, 11, 0, 0)),
    Ev("l2", "Budget",   At(4, 10, 30, 0), At(4, 11, 30, 0)),
    Ev("l3", "Hiring",   At(4, 10, 45, 0), At(4, 12, 0, 0)),
    Ev("l4", "Retro",    At(4, 11, 0, 0),  At(4, 12, 0, 0)),
    Ev("l5", "Offsite",  At(4, 9, 0, 0),   At(4, 13, 0, 0)),
    Ev("l6", "Training", At(4, 10, 0, 0),  At(4, 11, 0, 0)) }

LayoutEventLists == SeqsUpTo(LayoutEventPool, MaxLayoutEvents)


\* ------------------------------------------------------------------- state
VARIABLES
  existingEvents,   \* detectEventConflicts / generateAlternativeTimeSlots: the event list
  newEvent,         \* the candidate's startDate and endDate
  excludeEventId,   \* the id left out of the comparison, NoId when not passed
  entry,            \* the function the caller invoked: "none", "detect" or "gen"
  stack,            \* the call stack, innermost frame last
  outcome,          \* "pending", "returned" or "RangeError" (call stack exhausted)
  detectResult,     \* the ConflictInfo the outermost detectEventConflicts returned
  genResult,        \* the Date[] the outermost generateAlternativeTimeSlots returned
  events,           \* findFreeTimeSlots: the event list
  targetDate,       \* findFreeTimeSlots: the day asked about
  minDuration,      \* findFreeTimeSlots: the minimum slot length in minutes
  freeCalled,       \* findFreeTimeSlots: whether the call has been made
  freeTime,         \* findFreeTimeSlots: the FreeTimeFinderResult returned
  layoutInput,      \* calculateEventLayout: the event list
  layoutCalled,     \* calculateEventLayout: whether the call has been made
  layoutEvents,     \* calculateEventLayout: the LayoutEvent[] returned
  allEvents,        \* useEventManager: the events state
  nextEventId,      \* useEventManager: the number of ids generateEventId has made
  request,          \* useEventManager: the last call, its name and arguments
  threw,            \* useEventManager: whether the last call threw
  viewEvents,       \* the events prop of the month and week views
  viewDate,         \* the day of the cell or column rendered
  rendered,         \* which of "week" (WeekView) and "cell" (CalendarCell) have rendered
  dayFiltered,      \* what filterEventsByDate returned for the day
  overlapReports,   \* CalendarCell: each getOverlappingEvents call, target and result
  cellConflicts     \* CalendarCell: the ids in conflictingEvents

conflictVars ==
  <<existingEvents, newEvent, excludeEventId, entry, stack, outcome,
    detectResult, genResult>>

freeVars == <<events, targetDate, minDuration, freeCalled, freeTime>>

layoutVars == <<layoutInput, layoutCalled, layoutEvents>>

managerVars == <<allEvents, nextEventId, request, threw>>

viewVars ==
  <<viewEvents, viewDate, rendered, dayFiltered, overlapReports, cellConflicts>>

vars == <<conflictVars, freeVars, layoutVars, managerVars, viewVars>>

\* ------------------------------------------------- detectEventConflicts body
EmptyMessage == [kind |-> "", count |-> 0, title |-> "", from |-> <<>>, to |-> <<>>]

EmptyInfo ==
  [hasConflict |-> FALSE, conflictingEvents |-> <<>>,
   conflictMessage |-> EmptyMessage, suggestedTimes |-> <<>>]

\* Variant: the exclusion test is missing.
IsExcludedNever(event, excludeId) == FALSE

\* `excludeEventId && event.id === excludeEventId`: an absent or empty id
\* excludes nothing.
IsExcluded(event, excludeId) ==
  excludeId # NoId /\ excludeId # "" /\ event.id = excludeId

ConflictingEvents(candidate, existing, excludeId) ==
  SelectSeq(existing, LAMBDA event :
    IF IsExcluded(event, excludeId) THEN FALSE
    ELSE areIntervalsOverlapping(
           [start |-> candidate.startDate, end |-> candidate.endDate],
           [start |-> event.startDate, end |-> event.endDate]))

\* Variant: the message is built whether or not there is a conflict.
ConflictMessageUnguarded(conflicting) ==
  IF Len(conflicting) > 0
    THEN LET firstConflict == conflicting[1]
         IN  [kind  |-> IF Len(conflicting) = 1 THEN "one" ELSE "many",
              count |-> Len(conflicting),
              title |-> firstConflict.title,
              from  |-> format(firstConflict.startDate),
              to    |-> format(firstConflict.endDate)]
    ELSE [EmptyMessage EXCEPT !.kind = "many"]

ConflictMessage(conflicting) ==
  IF Len(conflicting) > 0
    THEN LET firstConflict == conflicting[1]
         IN  [kind  |-> IF Len(conflicting) = 1 THEN "one" ELSE "many",
              count |-> Len(conflicting),
              title |-> firstConflict.title,
              from  |-> format(firstConflict.startDate),
              to    |-> format(firstConflict.endDate)]
    ELSE EmptyMessage

\* ------------------------------------------------------------ stack frames
DetectFrame(candidate) ==
  [fn |-> "detect", pc |-> "filter", newEvent |-> candidate,
   conflictingEvents |-> <<>>, hasConflict |-> FALSE,
   conflictMessage |-> EmptyMessage, suggestedTimes |-> <<>>,
   eventDuration |-> 0, businessEnd |-> 0, currentSlot |-> 0, suggestions |-> <<>>]

\* generateAlternativeTimeSlots up to its loop: the duration in whole minutes,
\* the business window of the candidate's start day, the first slot.
GenFrame(candidate) ==
  [fn |-> "gen", pc |-> "loop", newEvent |-> candidate,
   conflictingEvents |-> <<>>, hasConflict |-> FALSE,
   conflictMessage |-> EmptyMessage, suggestedTimes |-> <<>>,
   eventDuration |-> differenceInMinutes(candidate.endDate, candidate.startDate),
   businessEnd |-> setHours(candidate.startDate, BusinessEndHour),
   currentSlot |-> setHours(candidate.startDate, BusinessStartHour),
   suggestions |-> <<>>]

\* Variant: the probe keeps the slot's start as its end.
TestEventZeroLength(currentSlot, slotEnd) == Interval(currentSlot, currentSlot)

\* The probe: the candidate with startDate and endDate replaced by the slot.
TestEvent(currentSlot, slotEnd) == Interval(currentSlot, slotEnd)

Top == stack[Len(stack)]

Caller == stack[Len(stack) - 1]

SetTop(frame) == [stack EXCEPT ![Len(stack)] = frame]

\* A call pushes a frame; with the stack full the engine throws RangeError,
\* which nothing catches, so every frame is unwound.
Call(callerFrame, calleeFrame) ==
  IF Len(stack) >= MaxStack
    THEN /\ stack' = <<>>
         /\ outcome' = "RangeError"
    ELSE /\ stack' = Append(SetTop(callerFrame), calleeFrame)
         /\ outcome' = outcome

\* --------------------------------------------------------------- operations
\* A caller invokes the function, or invokes it again with the same
\* arguments once it has returned.
CallDetect ==
  /\ stack = <<>> /\ outcome # "RangeError"
  /\ entry \in {"none", "detect"}
  /\ entry' = "detect"
  /\ stack' = <<DetectFrame(newEvent)>>
  /\ UNCHANGED <<existingEvents, newEvent, excludeEventId, outcome,
                 detectResult, genResult, freeVars, layoutVars, managerVars, viewVars>>

CallGen ==
  /\ stack = <<>> /\ outcome # "RangeError"
  /\ entry \in {"none", "gen"}
  /\ entry' = "gen"
  /\ stack' = <<GenFrame(newEvent)>>
  /\ UNCHANGED <<existingEvents, newEvent, excludeEventId, outcome,
                 detectResult, genResult, freeVars, layoutVars, managerVars, viewVars>>

\* detectEventConflicts, the filter, hasConflict and the message.
DetectFilter ==
  /\ stack # <<>> /\ Top.fn = "detect" /\ Top.pc = "filter"
  /\ LET conflicting == ConflictingEvents(Top.newEvent, existingEvents, excludeEventId)
     IN  stack' = SetTop([Top EXCEPT
                    !.conflictingEvents = conflicting,
                    !.hasConflict = Len(conflicting) > 0,
                    !.conflictMessage = ConflictMessage(conflicting),
                    !.pc = "suggest"])
  /\ UNCHANGED <<existingEvents, newEvent, excludeEventId, entry, outcome,
                 detectResult, genResult, freeVars, layoutVars, managerVars, viewVars>>

\* detectEventConflicts, suggestedTimes: the nested scan when hasConflict.
DetectSuggest ==
  /\ stack # <<>> /\ Top.fn = "detect" /\ Top.pc = "suggest"
  /\ IF Top.hasConflict
       THEN Call([Top EXCEPT !.pc = "awaitGen"], GenFrame(Top.newEvent))
       ELSE /\ stack' = SetTop([Top EXCEPT !.suggestedTimes = <<>>, !.pc = "return"])
            /\ outcome' = outcome
  /\ UNCHANGED <<existingEvents, newEvent, excludeEventId, entry,
                 detectResult, genResult, freeVars, layoutVars, managerVars, viewVars>>

InfoOf(frame) ==
  [hasConflict |-> frame.hasConflict, conflictingEvents |-> frame.conflictingEvents,
   conflictMessage |-> frame.conflictMessage, suggestedTimes |-> frame.suggestedTimes]

\* The scan after `conflicts` came back: push the slot when it is free, stop
\* at the limit, else step to the next slot.
AfterProbe(frame, conflicts) ==
  IF ~conflicts.hasConflict
    THEN LET pushed == Append(frame.suggestions, frame.currentSlot)
         IN  IF Len(pushed) >= MaxSuggestions
               THEN [frame EXCEPT !.suggestions = pushed, !.pc = "return"]
               ELSE [frame EXCEPT !.suggestions = pushed, !.pc = "loop",
                       !.currentSlot = addMinutes(frame.currentSlot, SlotStepMinutes)]
    ELSE [frame EXCEPT !.pc = "loop",
            !.currentSlot = addMinutes(frame.currentSlot, SlotStepMinutes)]

\* detectEventConflicts returns its ConflictInfo to the caller.
DetectReturn ==
  /\ stack # <<>> /\ Top.fn = "detect" /\ Top.pc = "return"
  /\ IF Len(stack) = 1
       THEN /\ stack' = <<>>
            /\ outcome' = "returned"
            /\ detectResult' = InfoOf(Top)
       ELSE /\ stack' = Append(SubSeq(stack, 1, Len(stack) - 2),
                               AfterProbe(Caller, InfoOf(Top)))
            /\ UNCHANGED <<outcome, detectResult>>
  /\ UNCHANGED <<existingEvents, newEvent, excludeEventId, entry, genResult, freeVars, layoutVars, managerVars, viewVars>>

\* generateAlternativeTimeSlots, one turn of the while loop up to the probe.
GenLoop ==
  /\ stack # <<>> /\ Top.fn = "gen" /\ Top.pc = "loop"
  /\ IF Top.currentSlot < Top.businessEnd
       THEN LET slotEnd == addMinutes(Top.currentSlot, Top.eventDuration)
            IN  IF slotEnd <= Top.businessEnd
                  THEN Call([Top EXCEPT !.pc = "awaitDetect"],
                            DetectFrame(TestEvent(Top.currentSlot, slotEnd)))
                  ELSE /\ stack' = SetTop([Top EXCEPT !.currentSlot =
                                      addMinutes(Top.currentSlot, SlotStepMinutes)])
                       /\ outcome' = outcome
       ELSE /\ stack' = SetTop([Top EXCEPT !.pc = "return"])
            /\ outcome' = outcome
  /\ UNCHANGED <<existingEvents, newEvent, excludeEventId, entry,
                 detectResult, genResult, freeVars, layoutVars, managerVars, viewVars>>

\* generateAlternativeTimeSlots returns its suggestions to the caller.
GenReturn ==
  /\ stack # <<>> /\ Top.fn = "gen" /\ Top.pc = "return"
  /\ IF Len(stack) = 1
       THEN /\ stack' = <<>>
            /\ outcome' = "returned"
            /\ genResult' = Top.suggestions
       ELSE /\ stack' = Append(SubSeq(stack, 1, Len(stack) - 2),
                               [Caller EXCEPT !.suggestedTimes = Top.suggestions,
                                              !.pc = "return"])
            /\ UNCHANGED <<outcome, genResult>>
  /\ UNCHANGED <<existingEvents, newEvent, excludeEventId, entry, detectResult, freeVars, layoutVars, managerVars, viewVars>>

\* ------------------------------------------------------- findFreeTimeSlots
getTimeOfDayType(time) ==
  LET hour == getHours(time)
  IN  IF hour < NoonHour THEN "morning"
      ELSE IF hour < EveningHour THEN "afternoon"
      ELSE "evening"

RECURSIVE InsertByStart(_, _)
\* Array.prototype.sort with (a, b) => a.startDate - b.startDate is stable:
\* an event goes after every event that does not start later.
InsertByStart(sorted, event) ==
  IF sorted = <<>> THEN <<event>>
  ELSE IF Head(sorted).startDate <= event.startDate
    THEN <<Head(sorted)>> \o InsertByStart(Tail(sorted), event)
    ELSE <<event>> \o sorted

\* Variant: the list is walked in the order supplied.
SortByStartUnsorted(list) == list

RECURSIVE SortByStart(_)
SortByStart(list) ==
  IF list = <<>> THEN <<>>
  ELSE InsertByStart(SortByStart(SubSeq(list, 1, Len(list) - 1)), list[Len(list)])

\* Variant: the sort is applied to the caller's array itself.
AfterSortInPlace(list) == SortByStart(list)

\* The caller's array after events.filter(...).sort(...) or
\* [...events].sort(...): the sort orders a fresh array, the caller's array
\* keeps its order.
AfterSortOfCopy(list) == list

\* Variant: the slot is tagged from its end.
FreeSlotTaggedByEnd(start, end, duration) ==
  [start |-> start, end |-> end, duration |-> duration, type |-> getTimeOfDayType(end)]

FreeSlot(start, end, duration) ==
  [start |-> start, end |-> end, duration |-> duration, type |-> getTimeOfDayType(start)]

\* The event's start clamped from below to the business start.
ClampedStart(event, businessStart) ==
  IF event.startDate < businessStart THEN businessStart ELSE event.startDate

\* The event's end clamped from above to the business end.
ClampedEnd(event, businessEnd) ==
  IF event.endDate > businessEnd THEN businessEnd ELSE event.endDate

\* Variant: the cursor is set to the event's end even when that is earlier.
AdvanceToEnd(currentTime, eventEnd) == eventEnd

\* currentTime = eventEnd > currentTime ? eventEnd : currentTime
Advance(currentTime, eventEnd) ==
  IF eventEnd > currentTime THEN eventEnd ELSE currentTime

RECURSIVE FreeWalk(_, _, _, _, _, _, _)
\* The loop over dayEvents from index i: the gap before each event, then the
\* cursor moved to the event's end; yields the cursor and the slots.
FreeWalk(dayEvents, i, currentTime, freeSlots, businessStart, businessEnd, minDur) ==
  IF i > Len(dayEvents)
    THEN [currentTime |-> currentTime, freeSlots |-> freeSlots]
    ELSE LET eventStart == ClampedStart(dayEvents[i], businessStart)
             eventEnd == ClampedEnd(dayEvents[i], businessEnd)
             duration == differenceInMinutes(eventStart, currentTime)
             slots == IF currentTime < eventStart /\ duration >= minDur
                        THEN Append(freeSlots, FreeSlot(currentTime, eventStart, duration))
                        ELSE freeSlots
             cursor == Advance(currentTime, eventEnd)
         IN  FreeWalk(dayEvents, i + 1, cursor, slots, businessStart, businessEnd, minDur)

AllFreeSlots(evs, date, minDur) ==
  LET businessStart == setHours(date, BusinessStartHour)
      businessEnd == setHours(date, BusinessEndHour)
      dayEvents == SortByStart(SelectSeq(evs, LAMBDA event : isSameDay(event.startDate, date)))
      walked == FreeWalk(dayEvents, 1, businessStart, <<>>, businessStart, businessEnd, minDur)
      duration == differenceInMinutes(businessEnd, walked.currentTime)
  IN  IF walked.currentTime < businessEnd /\ duration >= minDur
        THEN Append(walked.freeSlots, FreeSlot(walked.currentTime, businessEnd, duration))
        ELSE walked.freeSlots

RECURSIVE LongestOfLast(_, _, _)
\* Variant: a slot as long as the incumbent also replaces it.
LongestOfLast(freeSlots, i, longest) ==
  IF i > Len(freeSlots) THEN longest
  ELSE LongestOfLast(freeSlots, i + 1,
         IF longest = <<>> \/ freeSlots[i].duration >= longest[1].duration
           THEN <<freeSlots[i]>> ELSE longest)

RECURSIVE LongestOf(_, _, _)
\* freeSlots.reduce: a slot replaces the incumbent only when strictly longer;
\* null is the empty sequence.
LongestOf(freeSlots, i, longest) ==
  IF i > Len(freeSlots) THEN longest
  ELSE LongestOf(freeSlots, i + 1,
         IF longest = <<>> \/ freeSlots[i].duration > longest[1].duration
           THEN <<freeSlots[i]>> ELSE longest)

\* freeSlots.find(slot => slot.duration >= 60) || null
NextAvailableHour(freeSlots) ==
  LET long == SelectSeq(freeSlots, LAMBDA slot : slot.duration >= NextAvailableMinutes)
  IN  IF long = <<>> THEN <<>> ELSE <<Head(long)>>

\* Date.getDay(): 0 is Sunday; day 0 is a Thursday.
getDay(t) == ((t \div MsPerDay) + 4) % 7

\* Variant: the week starts on Sunday, weekStartsOn: 0.
startOfWeekSunday(t) == startOfDay(t) - getDay(t) * MsPerDay

\* date-fns startOfWeek(date, {weekStartsOn: 1})
startOfWeek(t) ==
  LET day == getDay(t)
      diff == (IF day < 1 THEN 7 ELSE 0) + day - 1
  IN  startOfDay(t) - diff * MsPerDay

\* eachDayOfInterval from the Monday to the Sunday of the week.
WeekDays(referenceDate) ==
  [k \in 1..7 |-> startOfWeek(referenceDate) + (k - 1) * MsPerDay]

TimeSlots ==
  << [start |-> 9, end |-> 10], [start |-> 10, end |-> 11], [start |-> 11, end |-> 12],
     [start |-> 14, end |-> 15], [start |-> 15, end |-> 16], [start |-> 16, end |-> 17] >>

\* events.some(event => areIntervalsOverlapping(slot, event, {inclusive: false}))
SlotHasConflict(evs, slotStart, slotEnd) ==
  \E i \in 1..Len(evs) :
      areIntervalsOverlapping([start |-> slotStart, end |-> slotEnd],
                              [start |-> evs[i].startDate, end |-> evs[i].endDate])

RECURSIVE WeekScanLastSample(_, _, _, _, _)
\* Variant: every free day replaces the sample.
WeekScanLastSample(evs, weekDays, timeSlot, d, acc) ==
  IF d > Len(weekDays) THEN acc
  ELSE LET slotStart == setHours(weekDays[d], timeSlot.start)
           slotEnd == setHours(weekDays[d], timeSlot.end)
       IN  WeekScanLastSample(evs, weekDays, timeSlot, d + 1,
             IF ~SlotHasConflict(evs, slotStart, slotEnd)
               THEN [availableDays |-> acc.availableDays + 1,
                     sampleSlot |-> <<FreeSlot(slotStart, slotEnd, 60)>>]
               ELSE acc)

RECURSIVE WeekScan(_, _, _, _, _)
\* The loop over weekDays from index d for one timeSlot: counts the days the
\* slot is free on and keeps the first such day's slot as the sample.
WeekScan(evs, weekDays, timeSlot, d, acc) ==
  IF d > Len(weekDays) THEN acc
  ELSE LET slotStart == setHours(weekDays[d], timeSlot.start)
           slotEnd == setHours(weekDays[d], timeSlot.end)
       IN  WeekScan(evs, weekDays, timeSlot, d + 1,
             IF ~SlotHasConflict(evs, slotStart, slotEnd)
               THEN [availableDays |-> acc.availableDays + 1,
                     sampleSlot |-> IF acc.sampleSlot = <<>>
                                      THEN <<FreeSlot(slotStart, slotEnd, 60)>>
                                      ELSE acc.sampleSlot]
               ELSE acc)

RECURSIVE RecurringFrom(_, _, _)
\* The loop over timeSlots from index k.
RecurringFrom(evs, weekDays, k) ==
  IF k > Len(TimeSlots) THEN <<>>
  ELSE LET scanned == WeekScan(evs, weekDays, TimeSlots[k], 1,
                               [availableDays |-> 0, sampleSlot |-> <<>>])
       IN  (IF scanned.availableDays >= MinAvailableDays /\ scanned.sampleSlot # <<>>
              THEN scanned.sampleSlot ELSE <<>>)
             \o RecurringFrom(evs, weekDays, k + 1)

findRecurringWeeklyPattern(evs, referenceDate) ==
  RecurringFrom(evs, WeekDays(referenceDate), 1)

FindFreeTimeSlots(evs, date, minDur) ==
  LET freeSlots == AllFreeSlots(evs, date, minDur)
  IN  [longestFreeBlock |-> LongestOf(freeSlots, 1, <<>>),
       nextAvailableHour |-> NextAvailableHour(freeSlots),
       recurringWeeklyPattern |-> findRecurringWeeklyPattern(evs, date),
       allFreeSlots |-> freeSlots]

EmptyFreeTime ==
  [longestFreeBlock |-> <<>>, nextAvailableHour |-> <<>>,
   recurringWeeklyPattern |-> <<>>, allFreeSlots |-> <<>>]

FindFree ==
  /\ freeCalled' = TRUE
  /\ freeTime' = FindFreeTimeSlots(events, targetDate, minDuration)
  /\ events' = AfterSortOfCopy(events)
  /\ UNCHANGED <<targetDate, minDuration, conflictVars, layoutVars, managerVars, viewVars>>

\* ------------------------------------------------------------ event layout
sortEventsByStartTime(evs) == SortByStart(evs)

\* Variant: an event fits a column when it starts no earlier than the
\* column's last event starts.
ColumnFitsByStart(column, event) ==
  \/ Len(column) = 0
  \/ event.startDate >= column[Len(column)].startDate

\* Variant: an event fits only when it starts after the column's last
\* event has ended.
ColumnFitsStrict(column, event) ==
  \/ Len(column) = 0
  \/ event.startDate > column[Len(column)].endDate

\* !lastEventInColumn || event.startDate >= lastEventInColumn.endDate
ColumnFits(column, event) ==
  \/ Len(column) = 0
  \/ event.startDate >= column[Len(column)].endDate

RECURSIVE FirstFitHighest(_, _, _)
\* Variant: the loop keeps going and the last column that fits wins.
FirstFitHighest(columns, event, i) ==
  IF i > Len(columns) THEN 0
  ELSE LET later == FirstFitHighest(columns, event, i + 1)
       IN  IF later > 0 THEN later
           ELSE IF ColumnFits(columns[i], event) THEN i
           ELSE 0

RECURSIVE FirstFit(_, _, _)
\* The for loop over the columns: the index of the first column the event
\* fits, 0 when the loop ends with placed still false.
FirstFit(columns, event, i) ==
  IF i > Len(columns) THEN 0
  ELSE IF ColumnFits(columns[i], event) THEN i
  ELSE FirstFit(columns, event, i + 1)

\* Variant: an event that fits no column opens no new one.
PlaceEventNoNewColumn(columns, event) ==
  LET i == FirstFit(columns, event, 1)
  IN  IF i > 0 THEN [columns EXCEPT ![i] = Append(@, event)]
      ELSE columns

\* One iteration of sortedEvents.forEach.
PlaceEvent(columns, event) ==
  LET i == FirstFit(columns, event, 1)
  IN  IF i > 0 THEN [columns EXCEPT ![i] = Append(@, event)]
      ELSE Append(columns, <<event>>)

RECURSIVE BuildColumns(_, _, _)
BuildColumns(sortedEvents, k, columns) ==
  IF k > Len(sortedEvents) THEN columns
  ELSE BuildColumns(sortedEvents, k + 1, PlaceEvent(columns, sortedEvents[k]))

\* Variant: columnIndex counts from 1.
LayoutEventOneBased(event, columnIndex, columnCount) ==
  [id |-> event.id, title |-> event.title,
   startDate |-> event.startDate, endDate |-> event.endDate,
   width |-> <<100, columnCount>>,
   left |-> <<(columnIndex + 1) * 100, columnCount>>]

\* { ...event, width, left }.  width = 100 / columns.length and
\* left = (columnIndex * 100) / columns.length are kept as fractions
\* <<numerator, denominator>>; columnIndex counts from 0.
LayoutEvent(event, columnIndex, columnCount) ==
  [id |-> event.id, title |-> event.title,
   startDate |-> event.startDate, endDate |-> event.endDate,
   width |-> <<100, columnCount>>,
   left |-> <<columnIndex * 100, columnCount>>]

RECURSIVE LayoutFrom(_, _, _)
\* columns.forEach over column.forEach: the events of column c from its
\* k-th on, then those of the columns after it.
LayoutFrom(columns, c, k) ==
  IF c > Len(columns) THEN <<>>
  ELSE IF k > Len(columns[c]) THEN LayoutFrom(columns, c + 1, 1)
  ELSE <<LayoutEvent(columns[c][k], c - 1, Len(columns))>>
         \o LayoutFrom(columns, c, k + 1)

calculateEventLayout(evs) ==
  LayoutFrom(BuildColumns(sortEventsByStartTime(evs), 1, <<>>), 1, 1)

Layout ==
  /\ layoutCalled' = TRUE
  /\ layoutEvents' = calculateEventLayout(layoutInput)
  /\ layoutInput' = AfterSortOfCopy(layoutInput)
  /\ UNCHANGED <<conflictVars, freeVars, managerVars, viewVars>>

\* ------------------------------------------------------------ event manager
\* A title is its sequence of characters.
Space == " "

RECURSIVE trimStart(_)
trimStart(title) ==
  IF title # <<>> /\ Head(title) = Space THEN trimStart(Tail(title)) ELSE title

RECURSIVE trimEnd(_)
trimEnd(title) ==
  IF title # <<>> /\ title[Len(title)] = Space
    THEN trimEnd(SubSeq(title, 1, Len(title) - 1))
    ELSE title

\* String.prototype.trim
trim(title) == trimEnd(trimStart(title))

\* The stored event of the event manager; color, category and description
\* play no part in validation of the events modelled (no description).
StoredEvent(id, title, s, e) ==
  [id |-> id, title |-> title, startDate |-> s, endDate |-> e]

\* Variant: the comparison of the dates is missing.
validateEventTitleOnly(event) ==
  (IF trim(event.title) = <<>> THEN <<"Title is required">> ELSE <<>>)
  \o (IF Len(event.title) > MaxTitleLength
        THEN <<"Title must be 100 characters or less">> ELSE <<>>)

\* validateEvent: the list of error messages.  A Date object is truthy, so
\* the two "is required" tests on the dates never fire for the events
\* modelled.
validateEvent(event) ==
  (IF trim(event.title) = <<>> THEN <<"Title is required">> ELSE <<>>)
  \o (IF Len(event.title) > MaxTitleLength
        THEN <<"Title must be 100 characters or less">> ELSE <<>>)
  \o (IF event.startDate >= event.endDate
        THEN <<"End date must be after start date">> ELSE <<>>)

\* createEvent with the id generateEventId() makes.
createEvent(data, id) ==
  StoredEvent(id, trim(data.title), data.startDate, data.endDate)

\* A field of Partial<CalendarEvent>: <<>> when absent, <<value>> when given.
Given(field) == field # <<>>

\* { ...currentEvent, ...updates }
Merged(event, updates) ==
  StoredEvent(event.id,
              IF Given(updates.title) THEN updates.title[1] ELSE event.title,
              IF Given(updates.startDate) THEN updates.startDate[1] ELSE event.startDate,
              IF Given(updates.endDate) THEN updates.endDate[1] ELSE event.endDate)

\* updateEvent: the spread, then title: updates.title?.trim() || event.title
updateEvent(event, updates) ==
  [Merged(event, updates) EXCEPT
     !.title = IF Given(updates.title) /\ trim(updates.title[1]) # <<>>
                 THEN trim(updates.title[1])
                 ELSE event.title]

\* prev.findIndex(e => e.id === id), 0 for -1.
FindIndex(list, id) ==
  IF \E i \in 1..Len(list) : list[i].id = id
    THEN CHOOSE i \in 1..Len(list) :
           /\ list[i].id = id
           /\ \A j \in 1..(i - 1) : list[j].id # id
    ELSE 0

\* A title with a character other than a space, and a blank one.
ManagerTitles == { <<Space, "A">>, <<Space>> }

ManagerDates == { At(4, 9, 0, 0), At(4, 10, 0, 0), At(4, 11, 0, 0) }

EventData ==
  [title : ManagerTitles, startDate : ManagerDates, endDate : ManagerDates]

Updates ==
  [title : {<<>>} \cup { <<t>> : t \in ManagerTitles },
   startDate : {<<>>} \cup { <<d>> : d \in ManagerDates },
   endDate : {<<>>} \cup { <<d>> : d \in ManagerDates }]

NoUpdates == [title |-> <<>>, startDate |-> <<>>, endDate |-> <<>>]

NoRequest == [op |-> "none", id |-> 0, data |-> NoUpdates]

\* The ids in use, and one that is not.
ManagerIds == 0..MaxStored

\* initialEvents: lists of events that satisfy the invariant.
InitialEvents ==
  { <<>>,
    <<StoredEvent(0, <<"A">>, At(4, 9, 0, 0), At(4, 10, 0, 0))>> }

addEvent ==
  /\ nextEventId < MaxStored
  /\ \E eventData \in EventData :
       /\ request' = [op |-> "add", id |-> 0,
                      data |-> [title |-> <<eventData.title>>,
                                startDate |-> <<eventData.startDate>>,
                                endDate |-> <<eventData.endDate>>]]
       /\ IF Len(validateEvent(eventData)) > 0
            THEN /\ threw' = TRUE
                 /\ UNCHANGED <<allEvents, nextEventId>>
            ELSE /\ threw' = FALSE
                 /\ nextEventId' = nextEventId + 1
                 /\ allEvents' = Append(allEvents, createEvent(eventData, nextEventId + 1))
  /\ UNCHANGED <<conflictVars, freeVars, layoutVars, viewVars>>

\* updateEvent of the hook.
updateEventById ==
  /\ \E id \in ManagerIds : \E updates \in Updates :
       LET eventIndex == FindIndex(allEvents, id)
       IN  /\ request' = [op |-> "update", id |-> id, data |-> updates]
           /\ IF eventIndex = 0
                THEN /\ threw' = FALSE
                     /\ UNCHANGED allEvents
                ELSE LET currentEvent == allEvents[eventIndex]
                     IN  IF Len(validateEvent(Merged(currentEvent, updates))) > 0
                           THEN /\ threw' = TRUE
                                /\ UNCHANGED allEvents
                           ELSE /\ threw' = FALSE
                                /\ allEvents' = [allEvents EXCEPT ![eventIndex] =
                                                   updateEvent(currentEvent, updates)]
  /\ UNCHANGED <<nextEventId, conflictVars, freeVars, layoutVars, viewVars>>

deleteEvent ==
  /\ \E id \in ManagerIds :
       /\ request' = [op |-> "delete", id |-> id, data |-> NoUpdates]
       /\ allEvents' = SelectSeq(allEvents, LAMBDA e : e.id # id)
  /\ threw' = FALSE
  /\ UNCHANGED <<nextEventId, conflictVars, freeVars, layoutVars, viewVars>>

\* ------------------------------------------------------ month and week views
\* date-fns endOfDay: 23:59:59.999 of the day.
endOfDay(t) == startOfDay(t) + MsPerDay - 1

\* date-fns isWithinInterval: both ends belong to the interval.
isWithinInterval(date, interval) ==
  interval.start <= date /\ date <= interval.end

isEventInDateRange(event, startDate, endDate) ==
  \/ isWithinInterval(event.startDate, [start |-> startDate, end |-> endDate])
  \/ isWithinInterval(event.endDate, [start |-> startDate, end |-> endDate])
  \/ (event.startDate < startDate /\ event.endDate > endDate)

filterEventsByDate(evs, date) ==
  LET dayStart == startOfDay(date)
      dayEnd == endOfDay(date)
  IN  SelectSeq(evs, LAMBDA event : isEventInDateRange(event, dayStart, dayEnd))

\* Variant: the third test, the target containing the event, is missing.
getOverlappingEventsNoContainment(evs, targetEvent) ==
  SelectSeq(evs, LAMBDA event :
    IF event.id = targetEvent.id THEN FALSE
    ELSE \/ (targetEvent.startDate >= event.startDate /\ targetEvent.startDate < event.endDate)
         \/ (targetEvent.endDate > event.startDate /\ targetEvent.endDate <= event.endDate))

getOverlappingEvents(evs, targetEvent) ==
  SelectSeq(evs, LAMBDA event :
    IF event.id = targetEvent.id THEN FALSE
    ELSE \/ (targetEvent.startDate >= event.startDate /\ targetEvent.startDate < event.endDate)
         \/ (targetEvent.endDate > event.startDate /\ targetEvent.endDate <= event.endDate)
         \/ (targetEvent.startDate <= event.startDate /\ targetEvent.endDate >= event.endDate))

\* The events of the views, each with startDate < endDate, around day 4.
ViewEventPool ==
  { Ev("d1", "Night",    At(3, 22, 0, 0),  At(4, 0, 0, 0)),
    Ev("d2", "Standup",  At(4, 9, 0, 0),   At(4, 10, 0, 0)),
    Ev("d3", "Review",   At(4, 10, 0, 0),  At(4, 11, 0, 0)),
    Ev("d4", "Call",     At(4, 9, 30, 0),  At(4, 10, 30, 0)),
    Ev("d5", "Retreat",  At(3, 20, 0, 0),  At(5, 2, 0, 0)),
    Ev("d6", "Release",  At(4, 23, 0, 0),  At(5, 1, 0, 0)),
    Ev("d7", "Backup",   At(5, 0, 0, 0),   At(5, 1, 0, 0)) }

ViewEventLists == SeqsUpTo(ViewEventPool, MaxEvents)

ViewDates == { At(4, 0, 0, 0), At(4, 15, 30, 0) }

\* WeekView eventsByDay, for one day of the week: the day's events, laid out.
EventsByDay ==
  /\ rendered' = rendered \cup {"week"}
  /\ dayFiltered' = filterEventsByDate(viewEvents, viewDate)
  /\ layoutInput' = dayFiltered'
  /\ layoutCalled' = TRUE
  /\ layoutEvents' = calculateEventLayout(dayFiltered')
  /\ UNCHANGED <<viewEvents, viewDate, overlapReports, cellConflicts,
                 conflictVars, freeVars, managerVars>>

\* The report of one getOverlappingEvents call.
OverlapReport(evs, event) ==
  [target |-> event, overlapping |-> getOverlappingEvents(evs, event)]

\* MonthView hands the cell the day's events and all events; CalendarCell
\* collects the ids of the day's events that overlap some event, and of the
\* events they overlap.
CellConflicts ==
  LET cellEvents == filterEventsByDate(viewEvents, viewDate)
      reports == [i \in 1..Len(cellEvents) |-> OverlapReport(viewEvents, cellEvents[i])]
  IN  /\ rendered' = rendered \cup {"cell"}
      /\ overlapReports' = reports
      /\ cellConflicts' =
           UNION { {reports[i].target.id} \cup
                     { reports[i].overlapping[k].id : k \in 1..Len(reports[i].overlapping) } :
                   i \in { j \in 1..Len(reports) : Len(reports[j].overlapping) > 0 } }
      /\ UNCHANGED <<viewEvents, viewDate, dayFiltered,
                     conflictVars, freeVars, layoutVars, managerVars>>

\* ----------------------------------------------------------- specifications
TargetDates == { At(4, 0, 0, 0), At(4, 15, 30, 0), At(5, 9, 0, 0), At(10, 12, 0, 0) }

MinDurations == { DefaultMinDuration, SlotStepMinutes }

ConflictIdle ==
  /\ entry = "none"
  /\ stack = <<>>
  /\ outcome = "pending"
  /\ detectResult = EmptyInfo
  /\ genResult = <<>>

FreeIdle ==
  /\ freeCalled = FALSE
  /\ freeTime = EmptyFreeTime

FreeUnused ==
  /\ events = <<>>
  /\ targetDate = At(4, 0, 0, 0)
  /\ minDuration = DefaultMinDuration
  /\ FreeIdle

ConflictUnused ==
  /\ existingEvents = <<>>
  /\ newEvent = Interval(At(4, 9, 0, 0), At(4, 10, 0, 0))
  /\ excludeEventId = NoId
  /\ ConflictIdle

LayoutIdle ==
  /\ layoutCalled = FALSE
  /\ layoutEvents = <<>>

LayoutUnused ==
  /\ layoutInput = <<>>
  /\ LayoutIdle

ManagerIdle ==
  /\ nextEventId = 0
  /\ request = NoRequest
  /\ threw = FALSE

ManagerUnused ==
  /\ allEvents = <<>>
  /\ ManagerIdle

ViewIdle ==
  /\ rendered = {}
  /\ dayFiltered = <<>>
  /\ overlapReports = <<>>
  /\ cellConflicts = {}

ViewUnused ==
  /\ viewEvents = <<>>
  /\ viewDate = At(4, 0, 0, 0)
  /\ ViewIdle

Init ==
  /\ existingEvents \in EventLists
  /\ newEvent \in Candidates
  /\ excludeEventId \in ExcludeIds
  /\ ConflictIdle
  /\ FreeUnused
  /\ LayoutUnused
  /\ ManagerUnused
  /\ ViewUnused

Next ==
  \/ CallDetect
  \/ CallGen
  \/ DetectFilter
  \/ DetectSuggest
  \/ DetectReturn
  \/ GenLoop
  \/ GenReturn

Spec == Init /\ [][Next]_vars

InitFreeTime ==
  /\ events \in FreeEventLists
  /\ targetDate \in TargetDates
  /\ minDuration \in MinDurations
  /\ FreeIdle
  /\ ConflictUnused
  /\ LayoutUnused
  /\ ManagerUnused
  /\ ViewUnused

NextFreeTime == FindFree

SpecFreeTime == InitFreeTime /\ [][NextFreeTime]_vars

InitLayout ==
  /\ layoutInput \in LayoutEventLists
  /\ LayoutIdle
  /\ ConflictUnused
  /\ FreeUnused
  /\ ManagerUnused
  /\ ViewUnused

NextLayout == Layout

SpecLayout == InitLayout /\ [][NextLayout]_vars

InitManager ==
  /\ allEvents \in InitialEvents
  /\ ManagerIdle
  /\ ConflictUnused
  /\ FreeUnused
  /\ LayoutUnused
  /\ ViewUnused

NextManager ==
  \/ addEvent
  \/ updateEventById
  \/ deleteEvent

SpecManager == InitManager /\ [][NextManager]_vars

InitView ==
  /\ viewEvents \in ViewEventLists
  /\ viewDate \in ViewDates
  /\ ViewIdle
  /\ ConflictUnused
  /\ FreeUnused
  /\ LayoutUnused
  /\ ManagerUnused

NextView ==
  \/ EventsByDay
  \/ CellConflicts

SpecView == InitView /\ [][NextView]_vars

\* A candidate whose scan meets a conflicting probe and one longer than the
\* business window.
SharedCandidates ==
  { Interval(At(4, 9, 30, 0), At(4, 10, 30, 0)),
    Interval(At(4, 7, 30, 0), At(4, 18, 0, 0)) }

\* One event list handed to every function of the core.
InitShared ==
  /\ existingEvents \in EventLists
  /\ events = existingEvents
  /\ layoutInput = existingEvents
  /\ newEvent \in SharedCandidates
  /\ excludeEventId = NoId
  /\ targetDate = At(4, 0, 0, 0)
  /\ minDuration = DefaultMinDuration
  /\ ConflictIdle
  /\ FreeIdle
  /\ LayoutIdle
  /\ ManagerUnused
  /\ ViewUnused

NextShared ==
  \/ CallDetect
  \/ CallGen
  \/ DetectFilter
  \/ DetectSuggest
  \/ DetectReturn
  \/ GenLoop
  \/ GenReturn
  \/ FindFree
  \/ Layout

SpecShared == InitShared /\ [][NextShared]_vars

\* ---------------------------------------------------------------- properties
Range(q) == { q[i] : i \in 1..Len(q) }

\* The strict overlap of two half-open intervals.
Overlaps(aStart, aEnd, bStart, bEnd) == aStart < bEnd /\ bStart < aEnd

\* What each detectEventConflicts call has computed so far: the calls on the
\* stack that are past the filter, and the outermost call once it has returned.
Reports ==
  { [candidate |-> stack[i].newEvent, info |-> InfoOf(stack[i])] :
      i \in { j \in 1..Len(stack) : stack[j].fn = "detect" /\ stack[j].pc # "filter" } }
  \cup
  (IF entry = "detect" /\ outcome = "returned"
     THEN { [candidate |-> newEvent, info |-> detectResult] } ELSE {})

\* The events the overlap rule selects for a candidate.
ExpectedConflicts(candidate) ==
  { e \in Range(existingEvents) :
      /\ e.id # excludeEventId
      /\ candidate.startDate < e.endDate
      /\ e.startDate < candidate.endDate }

\* C1: detectEventConflicts reports as conflictingEvents exactly the existing
\* events, other than the one with the excluded id, for which
\* candidate.start < event.end and event.start < candidate.end, each once, and
\* hasConflict is true iff that list is non-empty.
C1_ExactConflicts ==
  \A r \in Reports :
    /\ Range(r.info.conflictingEvents) = ExpectedConflicts(r.candidate)
    /\ Len(r.info.conflictingEvents) = Cardinality(ExpectedConflicts(r.candidate))
    /\ r.info.hasConflict <=> (ExpectedConflicts(r.candidate) # {})

C1_Witness ==
  /\ entry = "detect" /\ outcome = "returned"
  /\ detectResult.hasConflict
  /\ Len(detectResult.conflictingEvents) < Len(existingEvents)

\* C2: an existing event that starts when the candidate ends, or ends when
\* the candidate starts, is never listed in conflictingEvents.
C2_BackToBackNoConflict ==
  \A r \in Reports :
    \A e \in Range(r.info.conflictingEvents) :
      /\ r.candidate.endDate # e.startDate
      /\ e.endDate # r.candidate.startDate

C2_Witness ==
  /\ entry = "detect" /\ outcome = "returned"
  /\ newEvent.startDate < newEvent.endDate
  /\ \E e \in Range(existingEvents) :
       /\ e.id # excludeEventId
       /\ (newEvent.endDate = e.startDate \/ e.endDate = newEvent.startDate)
       /\ e \notin Range(detectResult.conflictingEvents)

GenFrames == { i \in 1..Len(stack) : stack[i].fn = "gen" }

\* C3: every call terminates: the call stack is never exhausted, and a scan
\* never starts inside a scan (at most one generateAlternativeTimeSlots frame).
C3_CallsBottomOut ==
  /\ outcome # "RangeError"
  /\ Cardinality(GenFrames) <= 1

Standup == Ev("e1", "Standup", At(4, 9, 0, 0), At(4, 10, 0, 0))

C4_Scenario ==
  /\ entry = "detect"
  /\ existingEvents = <<Standup>>
  /\ newEvent = Interval(At(4, 9, 30, 0), At(4, 10, 30, 0))
  /\ excludeEventId = NoId

\* C4: Standup 09:00-10:00 and candidate 09:30-10:30: the call returns
\* hasConflict, exactly Standup as conflicting, and some suggested time at or
\* after 10:00 whose probe overlaps no event.
C4_StandupClientCall ==
  (C4_Scenario /\ outcome # "pending") =>
    /\ outcome = "returned"
    /\ detectResult.hasConflict
    /\ detectResult.conflictingEvents = <<Standup>>
    /\ \E t \in Range(detectResult.suggestedTimes) :
         /\ t >= At(4, 10, 0, 0)
         /\ ~Overlaps(t, t + (newEvent.endDate - newEvent.startDate),
                      Standup.startDate, Standup.endDate)

\* The lists of times generateAlternativeTimeSlots has returned to a caller
\* outside the scan.
ReturnedTimes ==
  IF outcome # "returned" THEN {}
  ELSE IF entry = "gen" THEN {genResult}
  ELSE {detectResult.suggestedTimes}

WholeMinutes(candidate) ==
  ((candidate.endDate - candidate.startDate) \div MsPerMinute) * MsPerMinute

\* C5 as stated: at most 3 times, and for every returned time t the interval
\* [t, t + D), D the candidate's full duration, overlaps no event of the list.
C5_AsStated ==
  \A times \in ReturnedTimes :
    /\ Len(times) <= 3
    /\ \A t \in Range(times) :
         \A e \in Range(existingEvents) :
           ~Overlaps(t, t + (newEvent.endDate - newEvent.startDate),
                     e.startDate, e.endDate)

\* C5 amended: at most 3 times, and for every returned time t the interval
\* [t, t + D), D the candidate's duration in whole minutes, overlaps no event
\* of the list other than the one with the excluded id.
C5_SuggestionsFree ==
  \A times \in ReturnedTimes :
    /\ Len(times) <= 3
    /\ \A t \in Range(times) :
         \A e \in Range(existingEvents) :
           e.id # excludeEventId =>
             ~Overlaps(t, t + WholeMinutes(newEvent), e.startDate, e.endDate)

C5_Witness ==
  /\ entry = "gen" /\ outcome = "returned"
  /\ Len(genResult) = 3
  /\ \E e \in Range(existingEvents) :
       /\ e.id = excludeEventId
       /\ \E t \in Range(genResult) :
            Overlaps(t, t + WholeMinutes(newEvent), e.startDate, e.endDate)

\* The start times of the 30-minute grid from 08:00 up to 18:00 of the
\* candidate's day.
GridStarts(candidate) ==
  { s \in { setHours(candidate.startDate, BusinessStartHour) + k * 30 * MsPerMinute :
              k \in 0..((BusinessEndHour - BusinessStartHour) * 2 - 1) } : TRUE }

Acceptable(candidate) ==
  { s \in GridStarts(candidate) :
      /\ s + WholeMinutes(candidate) <= setHours(candidate.startDate, BusinessEndHour)
      /\ \A e \in Range(existingEvents) :
           e.id # excludeEventId =>
             ~Overlaps(s, s + WholeMinutes(candidate), e.startDate, e.endDate) }

\* C6: the list generateAlternativeTimeSlots returns is the first (up to)
\* three acceptable grid starts in increasing order, none skipped.
C6_FirstThreeAcceptable ==
  (entry = "gen" /\ outcome # "pending") =>
    /\ outcome = "returned"
    /\ Len(genResult) <= 3
    /\ Len(genResult) = 3 \/ Range(genResult) = Acceptable(newEvent)
    /\ \A i \in 1..Len(genResult) :
         /\ genResult[i] \in Acceptable(newEvent)
         /\ \A j \in 1..Len(genResult) : i < j => genResult[i] < genResult[j]
         /\ \A s \in Acceptable(newEvent) :
              s < genResult[i] => \E j \in 1..Len(genResult) : j < i /\ genResult[j] = s

\* C7: an event whose id is the excluded id is never reported, and a list
\* holding only the excluded event gives hasConflict = false with no scan.
C7_ExcludedNeverReported ==
  /\ \A r \in Reports :
       \A e \in Range(r.info.conflictingEvents) :
         excludeEventId = NoId \/ e.id # excludeEventId
  /\ (/\ entry = "detect"
      /\ Len(existingEvents) = 1
      /\ existingEvents[1].id = excludeEventId) =>
        /\ GenFrames = {}
        /\ outcome # "RangeError"
        /\ outcome = "returned" =>
             /\ ~detectResult.hasConflict
             /\ detectResult.suggestedTimes = <<>>

C7_Witness ==
  /\ entry = "detect" /\ outcome = "returned"
  /\ Len(existingEvents) = 1
  /\ existingEvents[1].id = excludeEventId
  /\ newEvent = Interval(existingEvents[1].startDate, existingEvents[1].endDate)

\* C8: with two or more conflicts the message names the earliest-starting
\* conflicting event and the count of conflicts; with one conflict it names
\* that event and its time range.
C8_MessageNamesEarliest ==
  \A r \in Reports :
    Len(r.info.conflictingEvents) >= 1 =>
      \E e \in Range(r.info.conflictingEvents) :
        /\ \A o \in Range(r.info.conflictingEvents) : e.startDate <= o.startDate
        /\ r.info.conflictMessage.title = e.title
        /\ r.info.conflictMessage.from = format(e.startDate)
        /\ r.info.conflictMessage.to = format(e.endDate)
        /\ r.info.conflictMessage.count = Len(r.info.conflictingEvents)

\* C9: a candidate with start >= end is rejected: the call does not return a
\* ConflictInfo.
C9_InvalidCandidateRejected ==
  (entry = "detect" /\ newEvent.startDate >= newEvent.endDate) =>
    outcome # "returned"

\* C10: every free slot lies inside the business window of the target day:
\* slot.start >= 08:00 and slot.end <= 18:00.
C10_SlotsInsideBusinessWindow ==
  \A slot \in Range(freeTime.allFreeSlots) :
    /\ slot.start >= setHours(targetDate, BusinessStartHour)
    /\ slot.end <= setHours(targetDate, BusinessEndHour)

\* C11: the free slots are listed in increasing order and do not overlap:
\* each slot starts at or after the end of the slot before it.
C11_SlotsDisjointOrdered ==
  \A i \in 1..Len(freeTime.allFreeSlots) :
    \A j \in 1..Len(freeTime.allFreeSlots) :
      i < j => freeTime.allFreeSlots[j].start >= freeTime.allFreeSlots[i].end

\* C12: no free slot strictly overlaps an event of the supplied list.
C12_SlotsAvoidEvents ==
  \A slot \in Range(freeTime.allFreeSlots) :
    \A e \in Range(events) :
      ~Overlaps(slot.start, slot.end, e.startDate, e.endDate)

WindowStart == setHours(targetDate, BusinessStartHour)

WindowEnd == setHours(targetDate, BusinessEndHour)

\* The events that start on the target day.
DayEvents == { e \in Range(events) : isSameDay(e.startDate, targetDate) }

\* The instants of the business window where a slot or a day event starts or
\* ends, with the window's two ends.
Breakpoints ==
  {WindowStart, WindowEnd} \cup
  { x \in UNION { {sl.start, sl.end} : sl \in Range(freeTime.allFreeSlots) }
          \cup UNION { {e.startDate, e.endDate} : e \in DayEvents } :
      WindowStart < x /\ x < WindowEnd }

\* The pieces of the window between neighbouring breakpoints: a slot or an
\* event covers a piece wholly or not at all.
Pieces ==
  { p \in Breakpoints \X Breakpoints :
      p[1] < p[2] /\ ~ \E c \in Breakpoints : p[1] < c /\ c < p[2] }

SlotsOver(p) ==
  { i \in 1..Len(freeTime.allFreeSlots) :
      freeTime.allFreeSlots[i].start <= p[1] /\ p[2] <= freeTime.allFreeSlots[i].end }

\* Covered by a day event clamped to the window.
EventOver(p) ==
  \E e \in DayEvents :
    /\ (IF e.startDate < WindowStart THEN WindowStart ELSE e.startDate) <= p[1]
    /\ p[2] <= (IF e.endDate > WindowEnd THEN WindowEnd ELSE e.endDate)

\* C13 as stated: every instant of [08:00, 18:00) lies in exactly one free
\* slot or in at least one clamped event, never in both and never in neither.
C13_AsStated ==
  freeCalled =>
    \A p \in Pieces :
      \/ Cardinality(SlotsOver(p)) = 1 /\ ~EventOver(p)
      \/ SlotsOver(p) = {} /\ EventOver(p)

\* C13 amended: no instant of [08:00, 18:00) lies in two free slots or in a
\* free slot and a clamped event of the day, and every stretch of the window
\* covered by neither lasts fewer whole minutes than the minimum duration.
C13_CoverExceptShortGaps ==
  freeCalled =>
    /\ \A p \in Pieces :
         /\ Cardinality(SlotsOver(p)) <= 1
         /\ ~(SlotsOver(p) # {} /\ EventOver(p))
    /\ \A x \in Breakpoints : \A y \in Breakpoints :
         (/\ x < y
          /\ \A p \in Pieces :
               (x <= p[1] /\ p[2] <= y) => (SlotsOver(p) = {} /\ ~EventOver(p)))
         => (y - x) \div MsPerMinute < minDuration

C13_Witness ==
  /\ freeCalled
  /\ Len(freeTime.allFreeSlots) >= 2
  /\ \E p \in Pieces : SlotsOver(p) = {} /\ ~EventOver(p)
  /\ \E p \in Pieces : EventOver(p)

\* The supplied list in every order.
Reorderings ==
  { q \in FreeEventLists : Len(q) = Len(events) /\ Range(q) = Range(events) }

\* C14: the same events in any order give the same allFreeSlots,
\* longestFreeBlock and nextAvailableHour.
C14_OrderIndependent ==
  freeCalled =>
    \A q \in Reorderings :
      LET other == FindFreeTimeSlots(q, targetDate, minDuration)
      IN  /\ other.allFreeSlots = freeTime.allFreeSlots
          /\ other.longestFreeBlock = freeTime.longestFreeBlock
          /\ other.nextAvailableHour = freeTime.nextAvailableHour

C14_Witness ==
  /\ freeCalled
  /\ Len(events) = 2
  /\ events[1].endDate # events[2].endDate
  /\ events[1].startDate = events[2].startDate
  /\ isSameDay(events[1].startDate, targetDate)
  /\ Len(freeTime.allFreeSlots) >= 2

Workshop == Ev("f4", "Workshop", At(4, 12, 0, 0), At(4, 13, 30, 0))

\* C15: longestFreeBlock is null iff there is no free slot; otherwise it is
\* a slot of maximum duration and the first of those; the single event
\* 12:00-13:30 gives 08:00-12:00 (240) and 13:30-18:00 (270), the latter
\* being the longest block.
C15_LongestBlock ==
  freeCalled =>
    /\ (freeTime.longestFreeBlock = <<>>) <=> (freeTime.allFreeSlots = <<>>)
    /\ freeTime.allFreeSlots # <<>> =>
         \E i \in 1..Len(freeTime.allFreeSlots) :
           /\ freeTime.longestFreeBlock = <<freeTime.allFreeSlots[i]>>
           /\ \A j \in 1..Len(freeTime.allFreeSlots) :
                /\ freeTime.allFreeSlots[j].duration <= freeTime.allFreeSlots[i].duration
                /\ j < i => freeTime.allFreeSlots[j].duration < freeTime.allFreeSlots[i].duration
    /\ (events = <<Workshop>> /\ isSameDay(targetDate, Workshop.startDate)) =>
         /\ freeTime.allFreeSlots =
              << [start |-> At(4, 8, 0, 0), end |-> At(4, 12, 0, 0),
                  duration |-> 240, type |-> "morning"],
                 [start |-> At(4, 13, 30, 0), end |-> At(4, 18, 0, 0),
                  duration |-> 270, type |-> "afternoon"] >>
         /\ freeTime.longestFreeBlock = <<freeTime.allFreeSlots[2]>>

C15_Witness ==
  /\ freeCalled
  /\ \E i \in 1..Len(freeTime.allFreeSlots) : \E j \in 1..Len(freeTime.allFreeSlots) :
       /\ i < j
       /\ freeTime.allFreeSlots[i].duration = freeTime.allFreeSlots[j].duration
       /\ freeTime.longestFreeBlock = <<freeTime.allFreeSlots[i]>>

AllSlots ==
  Range(freeTime.allFreeSlots) \cup Range(freeTime.recurringWeeklyPattern)

\* C16: every slot is tagged from the hour of its start alone: morning iff
\* hour < 12, afternoon iff 12 <= hour < 17, evening iff hour >= 17.
C16_TagFromStartHour ==
  \A slot \in AllSlots :
    LET hour == (slot.start % MsPerDay) \div MsPerHour
    IN  /\ slot.type = "morning" <=> hour < 12
        /\ slot.type = "afternoon" <=> (12 <= hour /\ hour < 17)
        /\ slot.type = "evening" <=> hour >= 17

C16_Witness ==
  /\ freeCalled
  /\ \E a \in Range(freeTime.allFreeSlots) : \E b \in Range(freeTime.allFreeSlots) :
       /\ a.type = "afternoon" /\ a.start = At(4, 12, 30, 0)
       /\ b.type = "evening" /\ b.start = At(4, 17, 0, 0)
  /\ \E c \in Range(freeTime.recurringWeeklyPattern) : c.type = "morning"

\* The Monday 00:00 of the Monday..Sunday week holding the reference date
\* (day 4 is a Monday).
WeekMonday ==
  CHOOSE m \in { startOfDay(targetDate) - k * MsPerDay : k \in 0..6 } :
    ((m \div MsPerDay) - 4) % 7 = 0

ProbeHours == <<9, 10, 11, 14, 15, 16>>

ProbeStart(d, h) == WeekMonday + d * MsPerDay + h * MsPerHour

\* The days of the week, 0 for Monday to 6 for Sunday, on which the hourly
\* probe at hour h overlaps no event of the list.
FreeDaysOf(h) ==
  { d \in 0..6 :
      \A e \in Range(events) :
        ~Overlaps(ProbeStart(d, h), ProbeStart(d, h + 1), e.startDate, e.endDate) }

\* The entries of the pattern that are a slot of the probe at hour h.
EntriesOf(h) ==
  { i \in 1..Len(freeTime.recurringWeeklyPattern) :
      /\ (freeTime.recurringWeeklyPattern[i].start % MsPerDay) = h * MsPerHour
      /\ (freeTime.recurringWeeklyPattern[i].end % MsPerDay) = (h + 1) * MsPerHour }

\* C17: a probe has a slot in the pattern iff it is free on at least 4 of the
\* 7 days Monday..Sunday of the reference week; one slot at most per probe,
\* nothing else in the pattern, so at most 6 entries.
C17_PatternIffFourFreeDays ==
  freeCalled =>
    /\ Len(freeTime.recurringWeeklyPattern) <= 6
    /\ \A i \in 1..Len(freeTime.recurringWeeklyPattern) :
         \E k \in 1..Len(ProbeHours) : i \in EntriesOf(ProbeHours[k])
    /\ \A k \in 1..Len(ProbeHours) :
         Cardinality(EntriesOf(ProbeHours[k])) =
           (IF Cardinality(FreeDaysOf(ProbeHours[k])) >= 4 THEN 1 ELSE 0)

C17_Witness ==
  /\ freeCalled
  /\ getDay(targetDate) = 0
  /\ \E k \in 1..Len(ProbeHours) : Cardinality(FreeDaysOf(ProbeHours[k])) = 3
  /\ \E k \in 1..Len(ProbeHours) : Cardinality(FreeDaysOf(ProbeHours[k])) = 4
  /\ Len(freeTime.recurringWeeklyPattern) \in 1..5

\* C18: each slot of the pattern starts on the earliest day of the week on
\* which its probe is free, lasts 60 minutes, and the slots are in the order
\* of the probes' hours 9, 10, 11, 14, 15, 16.
C18_AnchoredEarliestInProbeOrder ==
  freeCalled =>
    /\ \A i \in 1..Len(freeTime.recurringWeeklyPattern) :
         LET slot == freeTime.recurringWeeklyPattern[i]
             h == (slot.start % MsPerDay) \div MsPerHour
         IN  /\ slot.duration = 60
             /\ slot.end - slot.start = 60 * MsPerMinute
             /\ \E d \in FreeDaysOf(h) :
                  /\ slot.start = ProbeStart(d, h)
                  /\ \A o \in FreeDaysOf(h) : d <= o
    /\ \A i \in 1..Len(freeTime.recurringWeeklyPattern) :
         \A j \in 1..Len(freeTime.recurringWeeklyPattern) :
           i < j => (freeTime.recurringWeeklyPattern[i].start % MsPerDay)
                      < (freeTime.recurringWeeklyPattern[j].start % MsPerDay)

C18_Witness ==
  /\ freeCalled
  /\ \E i \in 1..Len(freeTime.recurringWeeklyPattern) :
       \E j \in 1..Len(freeTime.recurringWeeklyPattern) :
         /\ i < j
         /\ freeTime.recurringWeeklyPattern[i].start > freeTime.recurringWeeklyPattern[j].start
         /\ freeTime.recurringWeeklyPattern[i].start >= WeekMonday + MsPerDay

\* The input event an entry of the output was made from.
Placed(layoutEvent) ==
  Ev(layoutEvent.id, layoutEvent.title, layoutEvent.startDate, layoutEvent.endDate)

\* C19: no two entries of the layout whose intervals strictly overlap have
\* the same left offset, that is the same column.
C19_NoOverlapInColumn ==
  \A i \in 1..Len(layoutEvents) : \A j \in 1..Len(layoutEvents) :
    (/\ i # j
     /\ Overlaps(layoutEvents[i].startDate, layoutEvents[i].endDate,
                 layoutEvents[j].startDate, layoutEvents[j].endDate))
      => layoutEvents[i].left # layoutEvents[j].left

C19_Witness ==
  /\ layoutCalled
  /\ \E i \in 1..Len(layoutEvents) : \E j \in 1..Len(layoutEvents) :
       \E k \in 1..Len(layoutEvents) :
         /\ layoutEvents[i].id = "l1" /\ layoutEvents[j].id = "l2"
         /\ layoutEvents[k].id = "l4"
         /\ layoutEvents[i].left = <<0, 2>>
         /\ layoutEvents[j].left = <<100, 2>>
         /\ layoutEvents[k].left = <<0, 2>>

\* C20: once laid out, every event of the input is in the output exactly as
\* often as it is in the input (once), nothing else is in the output, and
\* the empty input gives the empty output.
C20_EachEventOnce ==
  layoutCalled =>
    /\ Len(layoutEvents) = Len(layoutInput)
    /\ \A e \in Range(layoutInput) \cup { Placed(l) : l \in Range(layoutEvents) } :
         Cardinality({ i \in 1..Len(layoutEvents) : Placed(layoutEvents[i]) = e })
           = Cardinality({ i \in 1..Len(layoutInput) : layoutInput[i] = e })
    /\ \A l \in Range(layoutEvents) :
         \E n \in 1..Len(layoutInput) : \E c \in 0..(n - 1) :
           l.width = <<100, n>> /\ l.left = <<c * 100, n>>
    /\ (layoutInput = <<>> => layoutEvents = <<>>)

C20_Witness ==
  /\ layoutCalled
  /\ Len(layoutInput) = 3
  /\ Len(layoutEvents) = 3
  /\ \E l \in Range(layoutEvents) : l.left = <<200, 3>>

\* Fractions <<numerator, denominator>> with positive denominators.
FracLess(x, y) == x[1] * y[2] < y[1] * x[2]
FracEq(x, y) == x[1] * y[2] = y[1] * x[2]
FracLeq(x, y) == x[1] * y[2] <= y[1] * x[2]
FracSum(x, y) == <<x[1] * y[2] + y[1] * x[2], x[2] * y[2]>>

LeftOffsets == { l.left : l \in Range(layoutEvents) }

\* The final column count, and the index from 0 of an entry's column: the
\* number of distinct offsets to its left.
TotalColumns == Cardinality(LeftOffsets)
ColumnIndex(l) == Cardinality({ o \in LeftOffsets : FracLess(o, l.left) })

InputIndex(l) == CHOOSE i \in 1..Len(layoutInput) : layoutInput[i] = Placed(l)

\* y is placed before x: it starts earlier, or at the same time and comes
\* earlier in the list handed in.
PlacedBefore(y, x) ==
  \/ y.startDate < x.startDate
  \/ y.startDate = x.startDate /\ InputIndex(y) < InputIndex(x)

\* The entries placed before x in the column of index c.
EarlierIn(c, x) ==
  { y \in Range(layoutEvents) : PlacedBefore(y, x) /\ ColumnIndex(y) = c }

\* The last of them.
IsLastIn(y, c, x) ==
  /\ y \in EarlierIn(c, x)
  /\ \A z \in EarlierIn(c, x) : z = y \/ PlacedBefore(z, y)

\* C22: every event sits in the lowest-index column whose last event placed
\* before it ends at or before its start; it sits in a column empty until
\* then only when no earlier column qualifies, and that column is the next
\* new one.
C22_FirstFit ==
  \A x \in Range(layoutEvents) :
    /\ \A c \in 0..(ColumnIndex(x) - 1) :
         \E y \in Range(layoutEvents) :
           IsLastIn(y, c, x) /\ y.endDate > x.startDate
    /\ \A y \in Range(layoutEvents) :
         IsLastIn(y, ColumnIndex(x), x) => y.endDate <= x.startDate
    /\ EarlierIn(ColumnIndex(x), x) = {} =>
         \A y \in Range(layoutEvents) :
           PlacedBefore(y, x) => ColumnIndex(y) < ColumnIndex(x)

C22_Witness ==
  /\ layoutCalled
  /\ \E x \in Range(layoutEvents) : \E y \in Range(layoutEvents) :
       \E z \in Range(layoutEvents) :
         /\ x.id = "l5" /\ y.id = "l1" /\ z.id = "l4"
         /\ ColumnIndex(x) = 0 /\ ColumnIndex(y) = 1 /\ ColumnIndex(z) = 1
         /\ y.endDate = z.startDate

\* The events of the list in progress at instant t.
InProgress(t) ==
  { i \in 1..Len(layoutInput) :
      layoutInput[i].startDate <= t /\ t < layoutInput[i].endDate }

\* The largest number of events in progress at one instant; the number
\* changes only where an event starts.
MaxInProgress ==
  IF layoutInput = <<>> THEN 0
  ELSE CHOOSE n \in 1..Len(layoutInput) :
         /\ \E e \in Range(layoutInput) : Cardinality(InProgress(e.startDate)) = n
         /\ \A e \in Range(layoutInput) : Cardinality(InProgress(e.startDate)) <= n

MutuallyOverlapping ==
  \A i \in 1..Len(layoutInput) : \A j \in 1..Len(layoutInput) :
    Overlaps(layoutInput[i].startDate, layoutInput[i].endDate,
             layoutInput[j].startDate, layoutInput[j].endDate)

InputsKept ==
  /\ existingEvents' = existingEvents
  /\ newEvent' = newEvent
  /\ events' = events
  /\ layoutInput' = layoutInput

\* A call made after the function has returned returns what the earlier call
\* returned.
SameResultAgain ==
  /\ outcome = "returned" =>
       /\ outcome' = "returned"
       /\ detectResult' = detectResult
       /\ genResult' = genResult
  /\ freeCalled => freeTime' = freeTime
  /\ layoutCalled => layoutEvents' = layoutEvents

AsEvent(candidate) == Ev("new", "New", candidate.startDate, candidate.endDate)

\* Detecting the existing event e as the candidate against the list holding
\* only the candidate of the call: whether a conflict is found.
ConflictsSwapped(e, candidate) ==
  ConflictingEvents(e, <<AsEvent(candidate)>>, NoId) # <<>>

\* C24: the candidate A of a call is found in conflict with an existing
\* event B iff B as candidate is found in conflict with the list [A]; for a
\* list of one event hasConflict is the same both ways.
C24_OverlapSymmetric ==
  \A r \in Reports :
    /\ \A e \in Range(existingEvents) :
         e.id # excludeEventId =>
           (e \in Range(r.info.conflictingEvents) <=> ConflictsSwapped(e, r.candidate))
    /\ (Len(existingEvents) = 1 /\ existingEvents[1].id # excludeEventId) =>
         (r.info.hasConflict <=> ConflictsSwapped(existingEvents[1], r.candidate))

C24_Witness ==
  /\ Len(existingEvents) = 1
  /\ existingEvents[1].id # excludeEventId
  /\ \E r \in Reports :
       /\ r.info.hasConflict
       /\ r.candidate.startDate > existingEvents[1].startDate
       /\ r.candidate.endDate > existingEvents[1].endDate
  /\ \E r \in Reports :
       /\ ~r.info.hasConflict
       /\ r.candidate.endDate = existingEvents[1].startDate

\* C25: a call that finds no conflict has an empty suggestedTimes and an
\* empty message, and it is what the call returns; the scan runs only for a
\* call that found a conflict.
C25_NoConflictNoSuggestions ==
  /\ \A r \in Reports :
       ~r.info.hasConflict =>
         /\ r.info.suggestedTimes = <<>>
         /\ r.info.conflictMessage = EmptyMessage
         /\ r.info.conflictingEvents = <<>>
  /\ \A i \in 2..Len(stack) :
       (stack[i].fn = "gen" /\ stack[i - 1].fn = "detect") => stack[i - 1].hasConflict
  /\ (entry = "detect" /\ outcome = "returned" /\ ExpectedConflicts(newEvent) = {}) =>
       detectResult = EmptyInfo

C25_Witness ==
  /\ entry = "detect" /\ outcome = "returned" /\ stack = <<>>
  /\ Len(existingEvents) = 2
  /\ ExpectedConflicts(newEvent) = {}
  /\ detectResult.suggestedTimes = <<>>
  /\ detectResult.conflictMessage.kind = ""

\* The window 08:00-18:00 in milliseconds.
WindowMs == 600 * MsPerMinute

\* What holds of a scan for a candidate too long for the window: it pushes
\* no suggestion and makes no call.
ScansNothing(isLong(_)) ==
  /\ \A i \in 1..Len(stack) :
       (stack[i].fn = "gen" /\ isLong(stack[i].newEvent)) =>
         /\ stack[i].suggestions = <<>>
         /\ i = Len(stack)
  /\ isLong(newEvent) =>
       /\ outcome # "RangeError"
       /\ (entry = "gen" /\ outcome = "returned") => genResult = <<>>

\* C26 as stated: a candidate with end - start > 600 minutes gets an empty
\* list as a normal result.
C26_AsStated ==
  ScansNothing(LAMBDA c : c.endDate - c.startDate > WindowMs)

\* C26: a candidate whose duration in whole minutes is more than 600 gets
\* an empty list as a normal result, whatever the event list.
C26_LongCandidateNoSuggestions ==
  ScansNothing(LAMBDA c : (c.endDate - c.startDate) \div MsPerMinute > 600)

C26_Witness ==
  /\ entry = "gen" /\ outcome = "returned" /\ stack = <<>>
  /\ (newEvent.endDate - newEvent.startDate) \div MsPerMinute > 600
  /\ ExpectedConflicts(newEvent) # {}
  /\ genResult = <<>>

\* A title with a character other than a space.
NonBlank(title) == \E i \in 1..Len(title) : title[i] # " "

StoredValid ==
  \A e \in Range(allEvents) : NonBlank(e.title) /\ e.startDate < e.endDate

\* The stored event a call is about, if any: the first with the id.
Target(id) ==
  { allEvents[i] : i \in { j \in 1..Len(allEvents) :
      /\ allEvents[j].id = id
      /\ \A k \in 1..(j - 1) : allEvents[k].id # id } }

\* The fields an event would have once the data of the call is applied.
TitleAfter(e, data) == IF data.title = <<>> THEN e.title ELSE data.title[1]
StartAfter(e, data) == IF data.startDate = <<>> THEN e.startDate ELSE data.startDate[1]
EndAfter(e, data) == IF data.endDate = <<>> THEN e.endDate ELSE data.endDate[1]

\* The call of this step would store an event with a blank title or with
\* startDate >= endDate.
WouldViolate ==
  \/ /\ request'.op = "add"
     /\ \/ ~NonBlank(request'.data.title[1])
        \/ request'.data.startDate[1] >= request'.data.endDate[1]
  \/ /\ request'.op = "update"
     /\ \E e \in Target(request'.id) :
          \/ ~NonBlank(TitleAfter(e, request'.data))
          \/ StartAfter(e, request'.data) >= EndAfter(e, request'.data)

ThrowsAndKeeps ==
  /\ WouldViolate => threw'
  /\ threw' => allEvents' = allEvents

\* C28: every stored event has a non-blank title and startDate < endDate
\* after any sequence of addEvent, updateEvent and deleteEvent; a call that
\* would store an event without that throws, and a call that throws leaves
\* the list as it was.
C28_StoredEventsValid == []StoredValid /\ [][ThrowsAndKeeps]_vars

C28_Witness ==
  /\ threw /\ request.op = "update"
  /\ request.data.title = <<>> /\ request.data.endDate = <<>>
  /\ Len(allEvents) = 2
  /\ \E e \in Range(allEvents) :
       /\ e.id = request.id
       /\ e.startDate = At(4, 10, 0, 0)
       /\ request.data.startDate[1] >= e.endDate

\* The events of the list, other than the target, that the strict overlap
\* rule of the conflict detector selects for the target.
StrictlyOverlapping(t) ==
  { e \in Range(viewEvents) :
      /\ e.id # t.id
      /\ t.startDate < e.endDate
      /\ e.startDate < t.endDate }

\* C29: getOverlappingEvents returns, each once, exactly the events with
\* another id for which target.start < event.end and event.start < target.end;
\* events that only touch are not returned, and an event is returned for a
\* target iff the target is returned for the event.
C29_AgreesWithStrictOverlap ==
  /\ \A i \in 1..Len(overlapReports) :
       LET r == overlapReports[i]
       IN  /\ Range(r.overlapping) = StrictlyOverlapping(r.target)
           /\ Len(r.overlapping) = Cardinality(StrictlyOverlapping(r.target))
           /\ \A e \in Range(r.overlapping) :
                r.target.endDate # e.startDate /\ e.endDate # r.target.startDate
  /\ \A i \in 1..Len(overlapReports) : \A j \in 1..Len(overlapReports) :
       overlapReports[j].target \in Range(overlapReports[i].overlapping)
         <=> overlapReports[i].target \in Range(overlapReports[j].overlapping)

C29_Witness ==
  /\ "cell" \in rendered
  /\ Len(overlapReports) = 2
  /\ overlapReports[1].target.startDate < overlapReports[2].target.startDate
  /\ overlapReports[2].target.endDate < overlapReports[1].target.endDate
  /\ overlapReports[1].overlapping = <<overlapReports[2].target>>
  /\ cellConflicts = { overlapReports[1].target.id, overlapReports[2].target.id }

\* The events whose half-open interval [startDate, endDate) meets the day
\* [00:00, 24:00) of the date.
OnTheDay ==
  { e \in Range(viewEvents) :
      /\ e.startDate < startOfDay(viewDate) + MsPerDay
      /\ e.endDate > startOfDay(viewDate) }

\* C30: filterEventsByDate returns an event iff its half-open interval
\* meets the day; an event that ends at 00:00 of the day is not returned.
C30_HalfOpenDayFilter ==
  "week" \in rendered =>
    /\ Range(dayFiltered) = OnTheDay
    /\ \A e \in Range(dayFiltered) : e.endDate # startOfDay(viewDate)

====
